---- MODULE Spec2Model ----
(***************************************************************************)
(* Model of src/app.py, the Streamlit dashboard "Audio Quality Analytics". *)
(*                                                                         *)
(* The script is re-executed top to bottom on every user interaction.  One *)
(* execution with an uploaded file writes a temporary file (line 64), and, *)
(* when the "Run Analysis" button was the interaction, runs the pipeline   *)
(* of lines 71-178.  The pipeline is modelled step by step (pc) so that    *)
(* the progress indicator and the exit paths are observable.               *)
(*                                                                         *)
(* Scores and thresholds are decimal numbers scaled by 10^4 (Scale), so    *)
(* that round(score, 3) is a real rounding to a multiple of 10.            *)
(* An optional value is a sequence of length 0 (None) or 1 (<<v>>).        *)
(***************************************************************************)
EXTENDS Integers, Sequences, FiniteSets, TLC

\* ---------------------------------------------------------------- bounds
\* number of temporary files the model lets mkstemp create
MaxTmp == 3

\* ------------------------------------------------------- program values
None == << >>

Some(v) == << v >>

\* METRIC_DESCRIPTIONS, app.py 44-51 (the second declaration is the one used)
METRIC_DESCRIPTIONS ==
    [m \in {"SRMR", "SIGMOS_DISC", "VQScore", "WVMOS", "SIGMOS_OVRL", "SIGMOS_REVERB"} |->
        CASE m = "SRMR"          -> "Technical measurement of reverberation and room acoustics"
          [] m = "SIGMOS_DISC"   -> "Audio continuity and smoothness"
          [] m = "VQScore"       -> "Overall voice quality assessment"
          [] m = "WVMOS"         -> "Predicted subjective quality rating"
          [] m = "SIGMOS_OVRL"   -> "Comprehensive overall audio quality"
          [] m = "SIGMOS_REVERB" -> "Perceived reverberation quality"]

\* dict.get(key) and dict.get(key, default)
Get(d, k) == IF k \in DOMAIN d THEN Some(d[k]) ELSE None

GetOr(d, k, default) == IF k \in DOMAIN d THEN d[k] ELSE default

\* ------------------------------------------------------------- inputs
\* uploaded files (name of the upload; the extension is one of wav/mp3/flac)
Files == {"a.wav", "b.mp3"}

\* config.THRESHOLDS is read from the config module; the tables below are
\* the one of the specification's example, the same with the two further
\* SigMOS sub-metrics, and one that lacks the VQScore entry.
ExampleThresholds ==
    [m \in {"SRMR", "SIGMOS_OVRL", "VQScore", "WVMOS"} |->
        CASE m = "SRMR"        -> 80000
          [] m = "SIGMOS_OVRL" -> 30000
          [] m = "VQScore"     -> 6000
          [] m = "WVMOS"       -> 25000]

FullThresholds ==
    [m \in {"SRMR", "SIGMOS_DISC", "SIGMOS_OVRL", "SIGMOS_REVERB", "VQScore", "WVMOS"} |->
        CASE m = "SRMR"          -> 80000
          [] m = "SIGMOS_DISC"   -> 30000
          [] m = "SIGMOS_OVRL"   -> 30000
          [] m = "SIGMOS_REVERB" -> 30000
          [] m = "VQScore"       -> 6000
          [] m = "WVMOS"         -> 25000]

NoVQThresholds ==
    [m \in {"SRMR", "SIGMOS_OVRL", "WVMOS"} |->
        CASE m = "SRMR"        -> 80000
          [] m = "SIGMOS_OVRL" -> 30000
          [] m = "WVMOS"       -> 25000]

ThresholdTables == {ExampleThresholds, FullThresholds, NoVQThresholds}

\* what calculate_srmr / calculate_vqscore / calculate_wvmos may return:
\* a score or None.  79996 is 7.9996, which round(.., 3) shows as 8.0.
SrmrScores == {None, Some(95000), Some(79996)}

VqScores == {None, Some(5500), Some(6004)}

WvmosScores == {None, Some(30000)}

\* what calculate_sigmos may return: None or a mapping, kept as the
\* sequence of its (key, value) pairs in iteration order.
SigmosNone == [none |-> TRUE, items |-> << >>]

SigmosMap(items) == [none |-> FALSE, items |-> items]

SigmosOutputs ==
    { SigmosNone,
      SigmosMap(<< >>),
      SigmosMap(<< <<"SIGMOS_OVRL", Some(32000)>> >>),
      SigmosMap(<< <<"SIGMOS_OVRL", Some(28000)>>, <<"SIGMOS_DISC", Some(31000)>> >>),
      SigmosMap(<< <<"SIGMOS_DISC", Some(29996)>>, <<"SIGMOS_REVERB", None>> >>),
      SigmosMap(<< <<"SIGMOS_SIG", Some(35000)>> >>) }

\* ---------------------------------------------------------------- state
VARIABLES
    THRESHOLDS,       \* app.py 34
    uploaded_file,    \* app.py 60, the uploader widget's value (None or <<name>>)
    disk,             \* temporary files on disk: set of [path, data]
    nextTmp,          \* the next unique name NamedTemporaryFile hands out
    tmp_path,         \* app.py 66
    pc,               \* position of the script
    exc,              \* exception in flight
    outcome,          \* how the last triggered run ended
    progress_bar,     \* app.py 71, value of the progress indicator
    status_text,      \* app.py 72
    results,          \* app.py 74
    df_results,       \* app.py 134, the report table shown
    summary,          \* app.py 140-145, the three counters shown
    download_button,  \* app.py 162, the CSV download control is shown
    errors,           \* st.error / st.code elements shown
    invoked,          \* history: the runners called in this run, in order
    returned,         \* history: <<runner, value>> for each runner that returned
    presses,          \* history: number of presses of Run Analysis
    ended             \* history: temp paths of the triggered runs that ended

vars == << THRESHOLDS, uploaded_file, disk, nextTmp, tmp_path, pc, exc, outcome,
           progress_bar, status_text, results, df_results, summary,
           download_button, errors, invoked, returned, presses, ended >>

Paths(d) == { f.path : f \in d }

\* ------------------------------------------------------ pure functions
\* round(score, 3) on a score scaled by 10^4: the nearest multiple of 10,
\* a tie going to the even thousandth
Round3(s) ==
    LET q == s \div 10
        r == s % 10
    IN  IF r < 5 THEN q * 10
        ELSE IF r > 5 THEN (q + 1) * 10
        ELSE IF q % 2 = 0 THEN q * 10 ELSE (q + 1) * 10

\* app.py 130: round(score, 3) if score is not None else None
RoundScore(score) == IF score = None THEN None ELSE Some(Round3(score[1]))

\* app.py 124: `score >= threshold` is evaluated only for a present score,
\* and raises TypeError when the threshold is None
CompareRaises(score, threshold) == score # None /\ threshold = None

\* variant: the status is computed from the displayed (rounded) score
StatusOf_Rounded(score, threshold) ==
    IF score # None /\ Round3(score[1]) >= threshold[1] THEN "PASS" ELSE "FAIL"

\* app.py 124: "PASS" if score is not None and score >= threshold else "FAIL"
StatusOf(score, threshold) ==
    IF score # None /\ score[1] >= threshold[1] THEN "PASS" ELSE "FAIL"

\* app.py 120-132: one row of final_rows
MakeRow(item, T) ==
    LET metric_name == item.Metric
        score       == item.Score
        threshold   == Get(T, metric_name)
    IN  [ Metric      |-> metric_name,
          Description |-> GetOr(METRIC_DESCRIPTIONS, metric_name, ""),
          Threshold   |-> threshold,
          Score       |-> RoundScore(score),
          Result      |-> StatusOf(score, threshold) ]

\* app.py 118-134: the loop over results
ProcessRaises(res, T) ==
    \E i \in 1..Len(res) : CompareRaises(res[i].Score, Get(T, res[i].Metric))

\* variant: the rows are built newest first
ProcessResults_Reversed(res, T) ==
    [ i \in 1..Len(res) |-> MakeRow(res[Len(res) + 1 - i], T) ]

ProcessResults(res, T) == [ i \in 1..Len(res) |-> MakeRow(res[i], T) ]

\* app.py 140-145
PassCount(rows) == Cardinality({ i \in 1..Len(rows) : rows[i].Result = "PASS" })

TotalCount(rows) == Len(rows)

\* variant: the third counter shows the total instead of the difference
SummaryOf_NoSubtract(rows) ==
    [ total  |-> TotalCount(rows),
      passed |-> PassCount(rows),
      failed |-> TotalCount(rows) ]

SummaryOf(rows) ==
    [ total  |-> TotalCount(rows),
      passed |-> PassCount(rows),
      failed |-> TotalCount(rows) - PassCount(rows) ]

\* app.py 99-100: for k, v in scores_sigmos.items(): results.append(...)
RECURSIVE AppendItems(_, _)
AppendItems(res, items) ==
    IF items = << >> THEN res
    ELSE AppendItems(Append(res, [Metric |-> items[1][1], Score |-> items[1][2]]),
                     Tail(items))

\* app.py 98: truthiness of the SigMOS result
Truthy(s) == ~s.none /\ Len(s.items) > 0

\* variant: an empty or None result is reported as a failed SigMOS row
SigmosResults_FailRow(res, scores) ==
    IF Truthy(scores) THEN AppendItems(res, scores.items)
    ELSE Append(res, [Metric |-> "SIGMOS", Score |-> None])

\* app.py 98-100: the rows the SigMOS step adds
SigmosResults(res, scores) ==
    IF Truthy(scores) THEN AppendItems(res, scores.items) ELSE res

\* variant: the handler also catches the script-control exception
Catches_All(e) == e \in {"Exception", "StopException"}

\* app.py 170: `except Exception` catches Exception and its subclasses;
\* streamlit's StopException derives from BaseException and passes through
Catches(e) == e = "Exception"

\* variant: the cleanup does nothing
RemoveFile_Keep(d, path) == d

\* app.py 177-178: if os.path.exists(tmp_path): os.remove(tmp_path)
RemoveFile(d, path) == { f \in d : f.path # path }

\* app.py 64-66: NamedTemporaryFile(delete=False) + write
WriteTemp(d, path, data) == d \cup { [path |-> path, data |-> data] }

\* ----------------------------------------------------------------- Init
Init ==
    /\ THRESHOLDS \in ThresholdTables
    /\ uploaded_file = None
    /\ disk = {}
    /\ nextTmp = 1
    /\ tmp_path = None
    /\ pc = "idle"
    /\ exc = "none"
    /\ outcome = "none"
    /\ progress_bar = None
    /\ status_text = ""
    /\ results = << >>
    /\ df_results = None
    /\ summary = None
    /\ download_button = FALSE
    /\ errors = {}
    /\ invoked = << >>
    /\ returned = << >>
    /\ presses = 0
    /\ ended = {}

\* a new execution of the script re-renders the page from scratch
FreshPage ==
    /\ status_text' = ""
    /\ df_results' = None
    /\ summary' = None
    /\ download_button' = FALSE
    /\ errors' = {}
    /\ results' = << >>
    /\ invoked' = << >>
    /\ returned' = << >>
    /\ exc' = "none"
    /\ outcome' = "none"

\* app.py 62-66: the upload branch writes the temporary file
SaveUpload(file) ==
    /\ nextTmp <= MaxTmp
    /\ disk' = WriteTemp(disk, nextTmp, file)
    /\ tmp_path' = Some(nextTmp)
    /\ nextTmp' = nextTmp + 1

\* the user chooses (or replaces) a file: the script runs with the button
\* not pressed, app.py 60-70
Upload(f) ==
    /\ pc = "idle"
    /\ uploaded_file # Some(f)
    /\ uploaded_file' = Some(f)
    /\ SaveUpload(f)
    /\ FreshPage
    /\ progress_bar' = None
    /\ UNCHANGED << THRESHOLDS, pc, presses, ended >>

\* the user removes the file from the uploader: app.py 62 is false
ClearUpload ==
    /\ pc = "idle"
    /\ uploaded_file # None
    /\ uploaded_file' = None
    /\ tmp_path' = None
    /\ FreshPage
    /\ progress_bar' = None
    /\ UNCHANGED << THRESHOLDS, disk, nextTmp, pc, presses, ended >>

\* the user clicks the download control: the script runs again with the
\* Run Analysis button not pressed, app.py 60-70
ClickDownload ==
    /\ pc = "idle"
    /\ download_button
    /\ uploaded_file # None
    /\ SaveUpload(uploaded_file[1])
    /\ FreshPage
    /\ progress_bar' = None
    /\ UNCHANGED << THRESHOLDS, uploaded_file, pc, presses, ended >>

\* the user presses Run Analysis: app.py 62-74
PressRun ==
    /\ pc = "idle"
    /\ uploaded_file # None
    /\ SaveUpload(uploaded_file[1])
    /\ FreshPage
    /\ progress_bar' = Some(0)
    /\ presses' = presses + 1
    /\ pc' = "load"
    /\ UNCHANGED << THRESHOLDS, uploaded_file, ended >>

\* app.py 79-87: the lazy import
LoadMetrics ==
    /\ pc = "load"
    /\ \/ /\ pc' = "srmr"
          /\ UNCHANGED << exc, errors >>
       \/ /\ errors' = errors \cup {"Failed to load metric modules"}
          /\ exc' = "StopException"
          /\ pc' = "except"
    /\ UNCHANGED << THRESHOLDS, uploaded_file, disk, nextTmp, tmp_path, outcome,
                    progress_bar, status_text, results, df_results, summary,
                    download_button, invoked, returned, presses, ended >>

\* variant: a failing runner is skipped and the pipeline goes on
RunnerRaises_Isolated ==
    /\ pc' = CASE pc = "srmr"    -> "sigmos"
               [] pc = "sigmos"  -> "vqscore"
               [] pc = "vqscore" -> "wvmos"
               [] pc = "wvmos"   -> "process"
    /\ UNCHANGED << exc, results, progress_bar, returned >>

\* a runner raises: control leaves the try body
RunnerRaises ==
    /\ exc' = "Exception"
    /\ pc' = "except"
    /\ UNCHANGED << results, progress_bar, returned >>

\* app.py 89-93
RunSRMR ==
    /\ pc = "srmr"
    /\ status_text' = "Running SRMR..."
    /\ invoked' = Append(invoked, "SRMR")
    /\ \/ \E score_srmr \in SrmrScores :
            /\ results' = Append(results, [Metric |-> "SRMR", Score |-> score_srmr])
            /\ returned' = Append(returned, <<"SRMR", score_srmr>>)
            /\ progress_bar' = Some(25)
            /\ pc' = "sigmos"
            /\ UNCHANGED exc
       \/ RunnerRaises
    /\ UNCHANGED << THRESHOLDS, uploaded_file, disk, nextTmp, tmp_path, outcome,
                    df_results, summary, download_button, errors, presses, ended >>

\* variant: the progress call sits inside the `if scores_sigmos` block
RunSigMOS_ProgressInIf ==
    /\ pc = "sigmos"
    /\ status_text' = "Running SigMOS..."
    /\ invoked' = Append(invoked, "SigMOS")
    /\ \/ \E scores_sigmos \in SigmosOutputs :
            /\ results' = SigmosResults(results, scores_sigmos)
            /\ returned' = Append(returned, <<"SigMOS", scores_sigmos>>)
            /\ progress_bar' = IF Truthy(scores_sigmos) THEN Some(50) ELSE progress_bar
            /\ pc' = "vqscore"
            /\ UNCHANGED exc
       \/ RunnerRaises
    /\ UNCHANGED << THRESHOLDS, uploaded_file, disk, nextTmp, tmp_path, outcome,
                    df_results, summary, download_button, errors, presses, ended >>

\* app.py 95-101
RunSigMOS ==
    /\ pc = "sigmos"
    /\ status_text' = "Running SigMOS..."
    /\ invoked' = Append(invoked, "SigMOS")
    /\ \/ \E scores_sigmos \in SigmosOutputs :
            /\ results' = SigmosResults(results, scores_sigmos)
            /\ returned' = Append(returned, <<"SigMOS", scores_sigmos>>)
            /\ progress_bar' = Some(50)
            /\ pc' = "vqscore"
            /\ UNCHANGED exc
       \/ RunnerRaises
    /\ UNCHANGED << THRESHOLDS, uploaded_file, disk, nextTmp, tmp_path, outcome,
                    df_results, summary, download_button, errors, presses, ended >>

\* app.py 103-107
RunVQScore ==
    /\ pc = "vqscore"
    /\ status_text' = "Running VQScore..."
    /\ invoked' = Append(invoked, "VQScore")
    /\ \/ \E score_vq \in VqScores :
            /\ results' = Append(results, [Metric |-> "VQScore", Score |-> score_vq])
            /\ returned' = Append(returned, <<"VQScore", score_vq>>)
            /\ progress_bar' = Some(75)
            /\ pc' = "wvmos"
            /\ UNCHANGED exc
       \/ RunnerRaises
    /\ UNCHANGED << THRESHOLDS, uploaded_file, disk, nextTmp, tmp_path, outcome,
                    df_results, summary, download_button, errors, presses, ended >>

\* app.py 109-113
RunWVMOS ==
    /\ pc = "wvmos"
    /\ status_text' = "Running WVMOS..."
    /\ invoked' = Append(invoked, "WVMOS")
    /\ \/ \E score_wvmos \in WvmosScores :
            /\ results' = Append(results, [Metric |-> "WVMOS", Score |-> score_wvmos])
            /\ returned' = Append(returned, <<"WVMOS", score_wvmos>>)
            /\ progress_bar' = Some(100)
            /\ pc' = "process"
            /\ UNCHANGED exc
       \/ RunnerRaises
    /\ UNCHANGED << THRESHOLDS, uploaded_file, disk, nextTmp, tmp_path, outcome,
                    df_results, summary, download_button, errors, presses, ended >>

\* app.py 115-168: status text, aggregation, summary, table, download
Process ==
    /\ pc = "process"
    /\ status_text' = "Analysis Complete!"
    /\ IF ProcessRaises(results, THRESHOLDS)
       THEN /\ exc' = "Exception"
            /\ pc' = "except"
            /\ UNCHANGED << df_results, summary, download_button >>
       ELSE /\ df_results' = Some(ProcessResults(results, THRESHOLDS))
            /\ summary' = Some(SummaryOf(ProcessResults(results, THRESHOLDS)))
            /\ download_button' = TRUE
            /\ pc' = "finally"
            /\ UNCHANGED exc
    /\ UNCHANGED << THRESHOLDS, uploaded_file, disk, nextTmp, tmp_path, outcome,
                    progress_bar, results, errors, invoked, returned, presses, ended >>

\* app.py 170-173
Except ==
    /\ pc = "except"
    /\ IF Catches(exc)
       THEN /\ errors' = errors \cup {"An error occurred during analysis", "traceback"}
            /\ exc' = "handled"
       ELSE UNCHANGED << errors, exc >>
    /\ pc' = "finally"
    /\ UNCHANGED << THRESHOLDS, uploaded_file, disk, nextTmp, tmp_path, outcome,
                    progress_bar, status_text, results, df_results, summary,
                    download_button, invoked, returned, presses, ended >>

\* app.py 175-178; afterwards the script ends (a StopException in flight
\* ends it silently), and the page waits for the next interaction
Finally ==
    /\ pc = "finally"
    /\ disk' = RemoveFile(disk, tmp_path[1])
    /\ outcome' = CASE exc = "none"          -> "Complete"
                    [] exc = "handled"       -> "Failed"
                    [] exc = "StopException" -> "Halted"
    /\ ended' = ended \cup {tmp_path[1]}
    /\ pc' = "idle"
    /\ UNCHANGED << THRESHOLDS, uploaded_file, nextTmp, tmp_path, exc,
                    progress_bar, status_text, results, df_results, summary,
                    download_button, errors, invoked, returned, presses >>

Next ==
    \/ \E f \in Files : Upload(f)
    \/ ClearUpload
    \/ ClickDownload
    \/ PressRun
    \/ LoadMetrics
    \/ RunSRMR
    \/ RunSigMOS
    \/ RunVQScore
    \/ RunWVMOS
    \/ Process
    \/ Except
    \/ Finally

Spec == Init /\ [][Next]_vars

\* ------------------------------------------------------------- claims
Runners == << "SRMR", "SigMOS", "VQScore", "WVMOS" >>

GenericError == "An error occurred during analysis"

ImportError == "Failed to load metric modules"

RunEnded == pc = "idle" /\ outcome # "none"

\* a runner was called and did not return
RunnerRaised == Len(invoked) > Len(returned)

\* C1: whenever a triggered run has ended, by whichever exit path, the
\* temporary file written for that run is no longer on disk.
C1_TempFileRemoved ==
    /\ \A p \in ended : p \notin Paths(disk)
    /\ RunEnded => tmp_path[1] \in ended

C1_Witness ==
    /\ RunEnded
    /\ outcome = "Halted"
    /\ tmp_path[1] \in ended
    /\ tmp_path[1] \notin Paths(disk)

\* C2: as long as the run control has never been pressed, no report is
\* shown and no temporary file is on disk.
C2_NoTempWithoutRun ==
    presses = 0 => (df_results = None /\ disk = {})

\* C3: a present score whose metric has no threshold gives a FAIL row in
\* a run that completes with the report shown and without any error.
MissingThresholdRows ==
    { i \in 1..Len(results) :
        results[i].Score # None /\ Get(THRESHOLDS, results[i].Metric) = None }

C3_MissingThresholdSilentFail ==
    (RunEnded /\ Len(returned) = 4 /\ MissingThresholdRows # {}) =>
        /\ outcome = "Complete"
        /\ errors = {}
        /\ df_results # None
        /\ \A i \in MissingThresholdRows : df_results[1][i].Result = "FAIL"

\* C4 as stated: in the report table, a row is PASS iff the score of the
\* row is present and at least the row's threshold; absent score is FAIL.
C4_RowStatusFromRowScore ==
    df_results # None =>
        \A i \in 1..Len(df_results[1]) :
            LET row == df_results[1][i]
            IN  /\ row.Result \in {"PASS", "FAIL"}
                /\ row.Result = "PASS" <=>
                     (row.Score # None /\ row.Threshold # None
                        /\ row.Score[1] >= row.Threshold[1])

\* C4 amended: in the report table, row i is PASS iff the score the runner
\* returned for it (before rounding for display) is present and at least the
\* threshold configured for the row's metric; absent score is FAIL.
C4_RowStatusFromRawScore ==
    df_results # None =>
        /\ Len(df_results[1]) = Len(results)
        /\ \A i \in 1..Len(df_results[1]) :
            LET row == df_results[1][i]
                raw == results[i].Score
                thr == Get(THRESHOLDS, results[i].Metric)
            IN  /\ row.Metric = results[i].Metric
                /\ row.Threshold = thr
                /\ row.Result \in {"PASS", "FAIL"}
                /\ row.Result = "PASS" <=>
                     (raw # None /\ thr # None /\ raw[1] >= thr[1])
                /\ raw = None => row.Result = "FAIL"

\* a FAIL row whose displayed score reaches the threshold, and an
\* absent-score row
C4_Witness ==
    /\ df_results # None
    /\ outcome = "Complete"
    /\ \E i \in 1..Len(df_results[1]) :
         /\ df_results[1][i].Result = "FAIL"
         /\ df_results[1][i].Score # None
         /\ df_results[1][i].Score[1] >= df_results[1][i].Threshold[1]
    /\ \E i \in 1..Len(df_results[1]) : df_results[1][i].Result = "PASS"
    /\ \E i \in 1..Len(df_results[1]) : df_results[1][i].Score = None

\* C5: once a runner has raised, no later runner is called, no report,
\* counters or download control appear, the run ends Failed with the error
\* message and trace; a Complete run has all four runners returned.
C5_RunnerFailureIsFatal ==
    /\ RunnerRaised =>
         /\ invoked = SubSeq(Runners, 1, Len(returned) + 1)
         /\ pc \in {"except", "finally", "idle"}
         /\ df_results = None /\ summary = None /\ ~download_button
         /\ pc \in {"finally", "idle"} => {GenericError, "traceback"} \subseteq errors
         /\ pc = "idle" => outcome = "Failed"
    /\ outcome = "Complete" =>
         /\ invoked = Runners
         /\ Len(returned) = 4
         /\ \A i \in 1..4 : returned[i][1] = Runners[i]

C5_Witness ==
    /\ RunEnded
    /\ outcome = "Failed"
    /\ invoked = << "SRMR", "SigMOS" >>
    /\ Len(returned) = 1

\* C6: after an import failure the failure is reported, no runner is
\* called, progress stays 0, no report or download control is produced
\* and the generic error with trace is not shown; the run halts.
C6_ImportFailureHalts ==
    ImportError \in errors =>
        /\ invoked = << >> /\ returned = << >> /\ results = << >>
        /\ progress_bar = Some(0)
        /\ df_results = None /\ summary = None /\ ~download_button
        /\ GenericError \notin errors /\ "traceback" \notin errors
        /\ pc \in {"except", "finally", "idle"}
        /\ pc = "idle" => outcome = "Halted"

C6_Witness ==
    /\ RunEnded
    /\ outcome = "Halted"
    /\ ImportError \in errors

\* C7: the report rows are the collected results in invocation order: the
\* SRMR row, the SigMOS sub-metric rows in the mapping's order, the VQScore
\* row, the WVMOS row; none dropped, duplicated or moved.
CollectedNames ==
    << "SRMR" >>
      \o [ i \in 1..Len(returned[2][2].items) |-> returned[2][2].items[i][1] ]
      \o << "VQScore", "WVMOS" >>

CollectedScores ==
    << returned[1][2] >>
      \o [ i \in 1..Len(returned[2][2].items) |-> returned[2][2].items[i][2] ]
      \o << returned[3][2], returned[4][2] >>

C7_RowsInInvocationOrder ==
    df_results # None =>
        /\ Len(df_results[1]) = Len(CollectedNames)
        /\ \A i \in 1..Len(df_results[1]) :
             /\ df_results[1][i].Metric = CollectedNames[i]
             /\ (df_results[1][i].Score = None) <=> (CollectedScores[i] = None)
             /\ CollectedScores[i] # None =>
                  \* the displayed score is within half a thousandth of the collected one
                  /\ 2 * (df_results[1][i].Score[1] - CollectedScores[i][1]) <= 10
                  /\ 2 * (CollectedScores[i][1] - df_results[1][i].Score[1]) <= 10

C7_Witness ==
    /\ df_results # None
    /\ Len(df_results[1]) = 5
    /\ df_results[1][2].Metric = "SIGMOS_OVRL"
    /\ df_results[1][3].Metric = "SIGMOS_DISC"

\* C8: during a run the progress value is one of 0, 25, 50, 75, 100, is 25
\* times the number of runners that have returned (in the fixed order), is
\* 100 only once WVMOS has returned, and never decreases within the run.
C8_ProgressState ==
    progress_bar # None =>
        /\ progress_bar[1] \in {0, 25, 50, 75, 100}
        /\ progress_bar[1] = 25 * Len(returned)
        /\ \A i \in 1..Len(returned) : returned[i][1] = Runners[i]
        /\ progress_bar[1] = 100 <=>
             (Len(returned) = 4 /\ returned[4][1] = "WVMOS")

C8_ProgressSteps ==
    /\ []C8_ProgressState
    /\ [][ (progress_bar # None /\ progress_bar' # None /\ presses' = presses)
             => progress_bar'[1] >= progress_bar[1] ]_vars

C8_Witness ==
    /\ RunEnded
    /\ outcome = "Failed"
    /\ invoked = << "SRMR", "SigMOS", "VQScore" >>
    /\ ~Truthy(returned[2][2])
    /\ progress_bar = Some(50)

\* C9: the counters come from the report table: Total is the number of
\* rows, Passed the number of PASS rows, Failed is Total - Passed and is the
\* number of FAIL rows; the worked example gives PASS, PASS, FAIL, PASS and
\* 4 / 3 / 1.
RowsWith(status) == SelectSeq(df_results[1], LAMBDA r : r.Result = status)

ExampleRun ==
    /\ THRESHOLDS = ExampleThresholds
    /\ results = << [Metric |-> "SRMR",        Score |-> Some(95000)],
                    [Metric |-> "SIGMOS_OVRL", Score |-> Some(32000)],
                    [Metric |-> "VQScore",     Score |-> Some(5500)],
                    [Metric |-> "WVMOS",       Score |-> Some(30000)] >>
    /\ RunEnded

C9_SummaryCounts ==
    /\ (summary = None) <=> (df_results = None)
    /\ summary # None =>
         /\ summary[1].total = Len(df_results[1])
         /\ summary[1].passed = Len(RowsWith("PASS"))
         /\ summary[1].failed = summary[1].total - summary[1].passed
         /\ summary[1].failed = Len(RowsWith("FAIL"))
         /\ summary[1].passed + summary[1].failed = summary[1].total
    /\ ExampleRun =>
         /\ outcome = "Complete"
         /\ [ i \in 1..4 |-> df_results[1][i].Result ] = << "PASS", "PASS", "FAIL", "PASS" >>
         /\ summary = Some([total |-> 4, passed |-> 3, failed |-> 1])

C9_Witness == ExampleRun /\ summary # None

\* C10: an empty or None SigMOS result does not abort the run: it adds no
\* row and no error, progress goes to 50, VQScore and WVMOS come next, and
\* the run completes with exactly the SRMR, VQScore and WVMOS rows.
SigmosEmpty == Len(returned) >= 2 /\ ~Truthy(returned[2][2])

C10_EmptySigmosContinues ==
    SigmosEmpty =>
        /\ Len(results) = Len(returned) - 1
        /\ \A i \in 1..Len(results) : results[i].Metric \in {"SRMR", "VQScore", "WVMOS"}
        /\ (Len(invoked) = 2) =>
             (pc = "vqscore" /\ progress_bar = Some(50) /\ exc = "none" /\ errors = {})
        /\ (RunEnded /\ Len(returned) = 4 /\ ~ProcessRaises(results, THRESHOLDS)) =>
             outcome = "Complete"
        /\ outcome = "Complete" =>
             /\ invoked = Runners
             /\ errors = {}
             /\ [ i \in 1..Len(df_results[1]) |-> df_results[1][i].Metric ]
                  = << "SRMR", "VQScore", "WVMOS" >>

C10_Witness ==
    /\ SigmosEmpty
    /\ returned[2][2] = SigmosNone
    /\ outcome = "Complete"
    /\ Len(df_results[1]) = 3

====
